---- MODULE Spec2Model ----
(***************************************************************************)
(* scripts/summarize.py: the report builder of a Mycelium benchmark run.   *)
(* The script is one forward pass over a run directory: load prompts.json, *)
(* load every other *.json as a trial result, render the per-model tables  *)
(* and the answer transcripts, write summary.md, then (best effort) draw   *)
(* chart.png.  The model is that pass as a state machine over the run      *)
(* directory, run twice in a row.                                          *)
(*                                                                         *)
(* Run directory.  The directory holds prompts.json, one trial file and    *)
(* one transcript per (prompt, model, mode), and a stray notes.json.  All  *)
(* of them are well formed except the files named in `defects`.            *)
(*                                                                         *)
(* Numbers.  total_cost_usd is held in units of 1/10000 dollar, so that    *)
(* the ".4f" rendering is exact; duration_ms is held in milliseconds;      *)
(* a mean is held as the rational <<numerator, denominator>>.              *)
(***************************************************************************)
EXTENDS Integers, Sequences, FiniteSets, TLC

VARIABLES
    pc,           \* position of the script
    run,          \* 1 for the first run of the builder, 2 for the second
    defects,      \* the input files of the run directory that are defective
    chartAvail,   \* whether matplotlib and numpy can be imported in this run
    models,       \* meta["models"], as loaded
    labels,       \* [p["label"] for p in meta["prompts"]]
    target,       \* meta["target"]
    results,      \* results dict: name -> parsed record
    lines,        \* the list of output lines
    metrics,      \* metrics[model][mode][metric]
    summaryMd,    \* summary.md: <<>> when absent, <<content>> when written
    chartPng,     \* chart.png: <<>> when absent, <<plotted bars>> when written
    stdout,       \* what the script printed
    opened,       \* the files the script has opened for reading
    firstRun      \* what the first run was given and left: chartAvail, summary.md, chart.png

vars == <<pc, run, defects, chartAvail, models, labels, target, results, lines,
          metrics, summaryMd, chartPng, stdout, opened, firstRun>>

inputs == <<defects, chartAvail>>

(***************************************************************************)
(* Bounds of the model.                                                    *)
(***************************************************************************)
MaxModels == 2
MaxPrompts == 2

ModelNames == <<"opus", "sonnet", "haiku", "flash">>
LabelNames == <<"auth", "parse", "index", "route">>
Modes == <<"with-mcp", "without-mcp">>
Metrics == <<"cost", "time", "turns", "tokens">>

(***************************************************************************)
(* JSON values.  A scalar is [k, n, s]: k its type, n its number (for a    *)
(* number, a numeric string or a boolean), s its text (for a string).      *)
(***************************************************************************)
Val(k, n, s) == [k |-> k, n |-> n, s |-> s]
Absent == Val("absent", 0, "")
Num(n) == Val("num", n, "")
NumStr(n) == Val("numstr", n, "")
Str(s) == Val("str", 0, s)
ListVal == Val("list", 0, "")

\* A usage value: k its type, sub its four sub-counts when it is a mapping.
NoSub == <<Absent, Absent, Absent, Absent>>
Usage(k, sub) == [k |-> k, sub |-> sub]

\* The content of a trial file: k = "map" for a JSON mapping, "list" for any
\* other JSON value, "unparsable" for text json.load rejects.
Rec(k, cost, dur, turns, usage) ==
    [k |-> k, cost |-> cost, dur |-> dur, turns |-> turns, usage |-> usage]
EmptyRec == Rec("map", Absent, Absent, Absent, Usage("absent", NoSub))
ListRec == Rec("list", Absent, Absent, Absent, Usage("absent", NoSub))
Unparsable == Rec("unparsable", Absent, Absent, Absent, Usage("absent", NoSub))

(***************************************************************************)
(* The helpers of the script.                                              *)
(***************************************************************************)
NA == Str("N/A")

\* get(d, key): the value under one key, "N/A" when d is no mapping, the key
\* is missing (d.get(k, {}) gives {}) or the value is the empty mapping.
FieldOf(d, key) ==
    CASE key = "total_cost_usd" -> d.cost
      [] key = "duration_ms" -> d.dur
      [] key = "num_turns" -> d.turns

get(d, key) ==
    IF d.k # "map" THEN NA
    ELSE IF FieldOf(d, key).k \in {"absent", "emap"} THEN NA
    ELSE FieldOf(d, key)

\* float(v) and int(v) succeed on a number, a numeric string and a boolean
\* and raise on every other value (caught by the caller's except Exception).
FloatOk(v) == v.k \in {"num", "numstr", "bool"}
IntOk(v) == v.k \in {"num", "numstr", "bool"}

Digit2(n) == IF n < 10 THEN "0" \o ToString(n) ELSE ToString(n)
Digit3(n) == IF n < 100 THEN "0" \o Digit2(n) ELSE ToString(n)
Digit4(n) == IF n < 1000 THEN "0" \o Digit3(n) ELSE ToString(n)

\* f"${float(v):.4f}", v in 1/10000 dollar
fmt_cost(v) ==
    IF FloatOk(v)
    THEN "$" \o ToString(v.n \div 10000) \o "." \o Digit4(v.n % 10000)
    ELSE "N/A"

\* f"{float(v)/1000:.1f}s", v in milliseconds, rounded to a tenth of a second
fmt_time(v) ==
    IF FloatOk(v)
    THEN LET tenths == (v.n + 50) \div 100
         IN  ToString(tenths \div 10) \o "." \o ToString(tenths % 10) \o "s"
    ELSE "N/A"

\* f"{total:,}"
RECURSIVE Thousands(_)
Thousands(n) ==
    IF n < 1000 THEN ToString(n)
    ELSE Thousands(n \div 1000) \o "," \o Digit3(n % 1000)

\* a + b of Python on two JSON values: [ok, v]
PyAdd(a, b) ==
    CASE a.k = "num" /\ b.k = "num" -> [ok |-> TRUE, v |-> Num(a.n + b.n)]
      [] a.k = "str" /\ b.k = "str" -> [ok |-> TRUE, v |-> Str(a.s \o b.s)]
      [] a.k = "list" /\ b.k = "list" -> [ok |-> TRUE, v |-> ListVal]
      [] OTHER -> [ok |-> FALSE, v |-> Absent]

\* usage.get(name, 0)
SubCount(v) == IF v.k = "absent" THEN Num(0) ELSE v

\* d.get("usage", {}) and the sum of the four sub-counts: [ok, v]; not ok
\* when d or usage has no .get, or a + raises.
TokenTotal(d) ==
    IF d.k # "map" THEN [ok |-> FALSE, v |-> Absent]
    ELSE IF d.usage.k \notin {"absent", "emap", "map"}
         THEN [ok |-> FALSE, v |-> Absent]
    ELSE LET sub == IF d.usage.k = "map" THEN d.usage.sub ELSE NoSub
             s1 == PyAdd(SubCount(sub[1]), SubCount(sub[2]))
             s2 == IF s1.ok THEN PyAdd(s1.v, SubCount(sub[3])) ELSE s1
             s3 == IF s2.ok THEN PyAdd(s2.v, SubCount(sub[4])) ELSE s2
         IN  s3

\* fmt_tokens(d): the "," format raises on a string and on a list
fmt_tokens(d) ==
    LET t == TokenTotal(d)
    IN  IF t.ok /\ t.v.k = "num" THEN Thousands(t.v.n) ELSE "N/A"

\* f"{v}" of a value, as the turn-count cell prints it
PyStr(v) ==
    CASE v.k = "num" -> ToString(v.n)
      [] v.k = "numstr" -> ToString(v.n)
      [] v.k = "str" -> v.s
      [] v.k = "null" -> "None"
      [] v.k = "list" -> "[1, 2]"
      [] v.k = "map" -> "{'a': 1}"
      [] v.k = "bool" -> "True"

\* str.title() on the model names in use
title(s) ==
    CASE s = "opus" -> "Opus"
      [] s = "sonnet" -> "Sonnet"
      [] s = "haiku" -> "Haiku"
      [] s = "flash" -> "Flash"
      [] s = "o" -> "O"
      [] s = "p" -> "P"
      [] OTHER -> s

\* f"{num}-{label}-{model}-{mode}" with num = f"{idx+1:02d}"
Key(i, label, model, mode) ==
    Digit2(i) \o "-" \o label \o "-" \o model \o "-" \o mode

\* results.get(key, {})
Lookup(res, key) == IF key \in DOMAIN res THEN res[key] ELSE EmptyRec

(***************************************************************************)
(* The run directories the model starts from: MaxModels models and         *)
(* MaxPrompts prompts, every file well formed except for one defect, of    *)
(* one of the kinds listed below, which sits in one file or in the files   *)
(* of every prompt of one model and mode.                                  *)
(***************************************************************************)
BaseUsage(i, m, md) ==
    Usage("map", <<Num(100 * i), Num(1000 * m), Num(0), Num(25 * md)>>)

BaseRec(i, m, md) ==
    Rec("map", Num(10000 * i + 1000 * m + 125 * md),
               Num(1000 * i + 300 * m + 40 * md),
               Num(2 * i + m + 3 * md),
               BaseUsage(i, m, md))

RecDefects ==
    {"missing", "unparsable", "nonmapping",
     "cost_absent", "cost_str", "cost_numstr", "cost_bool", "cost_list",
     "dur_absent", "dur_str", "turns_absent", "turns_str", "turns_list",
     "usage_absent", "usage_str", "usage_emap", "usage_sub_absent",
     "usage_sub_str", "usage_all_str"}

\* The content of the trial file of prompt i, model m, mode md under a defect.
DefectRec(i, m, md, kind) ==
    LET b == BaseRec(i, m, md)
        u == b.usage.sub
    IN  CASE kind = "none" -> b
          [] kind = "unparsable" -> Unparsable
          [] kind = "nonmapping" -> ListRec
          [] kind = "cost_absent" -> [b EXCEPT !.cost = Absent]
          [] kind = "cost_str" -> [b EXCEPT !.cost = Str("bad")]
          [] kind = "cost_numstr" -> [b EXCEPT !.cost = NumStr(20000)]
          [] kind = "cost_bool" -> [b EXCEPT !.cost = Val("bool", 10000, "")]
          [] kind = "cost_list" -> [b EXCEPT !.cost = ListVal]
          [] kind = "dur_absent" -> [b EXCEPT !.dur = Absent]
          [] kind = "dur_str" -> [b EXCEPT !.dur = Str("bad")]
          [] kind = "turns_absent" -> [b EXCEPT !.turns = Absent]
          [] kind = "turns_str" -> [b EXCEPT !.turns = Str("many")]
          [] kind = "turns_list" -> [b EXCEPT !.turns = ListVal]
          [] kind = "usage_absent" -> [b EXCEPT !.usage = Usage("absent", NoSub)]
          [] kind = "usage_str" -> [b EXCEPT !.usage = Usage("str", NoSub)]
          [] kind = "usage_emap" -> [b EXCEPT !.usage = Usage("emap", NoSub)]
          [] kind = "usage_sub_absent" ->
                [b EXCEPT !.usage = Usage("map", <<u[1], Absent, u[3], u[4]>>)]
          [] kind = "usage_sub_str" ->
                [b EXCEPT !.usage = Usage("map", <<Str("a"), u[2], u[3], u[4]>>)]
          [] kind = "usage_all_str" ->
                [b EXCEPT !.usage =
                    Usage("map", <<Str("a"), Str("b"), Str("c"), Str("d")>>)]

TxtDefects == {"missing", "blank"}

\* A transcript is a sequence of pieces, each a word or a run of white space.
IsSpace(piece) == piece \in {" ", "\n"}
BaseTxt(key) == <<"\n", "answer", " ", key, "\n">>
DefectTxt(key, kind) == IF kind = "blank" THEN <<"\n", " ">> ELSE BaseTxt(key)

MetaDefects ==
    {"missing", "unparsable", "nonmapping",
     "models_absent", "models_num", "models_str", "models_map", "models_int_item",
     "prompts_absent", "prompts_num", "prompts_emap", "prompts_nolabel",
     "prompts_nonobj", "target_absent", "target_num"}

\* A JSON value to iterate over: k its type, items what a for loop yields
\* (the elements of a list, the characters of a string, the keys of a map).
Coll(k, items) == [k |-> k, items |-> items]
NoColl == Coll("absent", <<>>)
Obj(label) == Val("obj", 0, label)

Meta(k, ms, ps, tg) == [k |-> k, models |-> ms, prompts |-> ps, target |-> tg]

GoodModels == Coll("list", [j \in 1..MaxModels |-> Str(ModelNames[j])])
GoodPrompts == Coll("list", [j \in 1..MaxPrompts |-> Obj(LabelNames[j])])
GoodTarget == Str("myrepo")

\* The content of prompts.json under a defect.
DefectMeta(kind) ==
    LET gm == GoodModels
        gp == GoodPrompts
    IN  CASE kind = "none" -> Meta("map", gm, gp, GoodTarget)
          [] kind = "missing" -> Meta("missing", NoColl, NoColl, Absent)
          [] kind = "unparsable" -> Meta("unparsable", NoColl, NoColl, Absent)
          [] kind = "nonmapping" -> Meta("list", NoColl, NoColl, Absent)
          [] kind = "models_absent" -> Meta("map", NoColl, gp, GoodTarget)
          [] kind = "models_num" -> Meta("map", Coll("num", <<>>), gp, GoodTarget)
          [] kind = "models_str" ->
                Meta("map", Coll("str", <<Str("o"), Str("p")>>), gp, GoodTarget)
          [] kind = "models_map" -> Meta("map", Coll("map", gm.items), gp, GoodTarget)
          [] kind = "models_int_item" ->
                Meta("map", Coll("list", Append(gm.items, Num(7))), gp, GoodTarget)
          [] kind = "prompts_absent" -> Meta("map", gm, NoColl, GoodTarget)
          [] kind = "prompts_num" -> Meta("map", gm, Coll("num", <<>>), GoodTarget)
          [] kind = "prompts_emap" -> Meta("map", gm, Coll("emap", <<>>), GoodTarget)
          [] kind = "prompts_nolabel" ->
                Meta("map", gm, Coll("list", Append(gp.items, Val("nolabel", 0, ""))),
                     GoodTarget)
          [] kind = "prompts_nonobj" ->
                Meta("map", gm, Coll("list", Append(gp.items, Str("x"))), GoodTarget)
          [] kind = "target_absent" -> Meta("map", gm, gp, Absent)
          [] kind = "target_num" -> Meta("map", gm, gp, Num(3))

\* A defect: the file it is in (t, i, m, md) and its kind.
Defect(t, i, m, md, kind) == [t |-> t, i |-> i, m |-> m, md |-> md, kind |-> kind]
Slot(d) == <<d.t, d.i, d.m, d.md>>
Trials == (1..MaxPrompts) \X (1..MaxModels) \X (1..2)

\* one defect in one file
FileDefects ==
    {{Defect("meta", 0, 0, 0, k)} : k \in MetaDefects}
    \cup {{Defect("rec", x[1], x[2], x[3], k)} : x \in Trials, k \in RecDefects}
    \cup {{Defect("txt", x[1], x[2], x[3], k)} : x \in Trials, k \in TxtDefects}

\* one defect in the files of every prompt of one model and mode
ColumnDefects ==
    {{Defect("rec", i, c[1], c[2], k) : i \in 1..MaxPrompts} :
        c \in (1..MaxModels) \X (1..2), k \in RecDefects}
    \cup {{Defect("txt", i, c[1], c[2], k) : i \in 1..MaxPrompts} :
        c \in (1..MaxModels) \X (1..2), k \in TxtDefects}

DefectSets == {{}} \cup FileDefects \cup ColumnDefects

KindAt(D, t, i, m, md) ==
    IF \E d \in D : Slot(d) = <<t, i, m, md>>
    THEN (CHOOSE d \in D : Slot(d) = <<t, i, m, md>>).kind
    ELSE "none"

\* f"{num}-{label}-{model}-{mode}" of the trial x = <<prompt, model, mode>>,
\* and the trial a name belongs to
TrialKey == [x \in Trials |-> Key(x[1], LabelNames[x[1]], ModelNames[x[2]], Modes[x[3]])]
TrialOf == [name \in {TrialKey[x] : x \in Trials} |->
              CHOOSE x \in Trials : TrialKey[x] = name]

\* The files of the run directory, by name.
metaFile == DefectMeta(KindAt(defects, "meta", 0, 0, 0))

JsonNames ==
    {TrialKey[x] : x \in {y \in Trials :
                            KindAt(defects, "rec", y[1], y[2], y[3]) # "missing"}}
    \cup {"notes"}
TxtNames ==
    {TrialKey[x] : x \in {y \in Trials :
                            KindAt(defects, "txt", y[1], y[2], y[3]) # "missing"}}

jsonFile(name) ==
    IF name = "notes" THEN ListRec
    ELSE LET x == TrialOf[name]
         IN  DefectRec(x[1], x[2], x[3], KindAt(defects, "rec", x[1], x[2], x[3]))

txtFile(name) ==
    LET x == TrialOf[name]
    IN  DefectTxt(name, KindAt(defects, "txt", x[1], x[2], x[3]))

NoMetrics == <<>>
NoRun == [chartAvail |-> FALSE, summaryMd |-> <<>>, chartPng |-> <<>>]

Init ==
    /\ defects \in DefectSets
    /\ chartAvail \in BOOLEAN
    /\ pc = "load_meta"
    /\ run = 1
    /\ models = NoColl
    /\ labels = <<>>
    /\ target = Absent
    /\ results = <<>>
    /\ lines = <<>>
    /\ metrics = NoMetrics
    /\ summaryMd = <<>>
    /\ chartPng = <<>>
    /\ stdout = <<>>
    /\ opened = {}
    /\ firstRun = NoRun

(***************************************************************************)
(* The run directory as the script sees it.                                *)
(***************************************************************************)
File(base, ext) == [base |-> base, ext |-> ext]
FileName(f) == f.base \o "." \o f.ext

DirListing ==
    (IF metaFile.k = "missing" THEN {} ELSE {File("prompts", "json")})
    \cup {File(n, "json") : n \in JsonNames}
    \cup {File(n, "txt") : n \in TxtNames}
    \cup (IF summaryMd = <<>> THEN {} ELSE {File("summary", "md")})
    \cup (IF chartPng = <<>> THEN {} ELSE {File("chart", "png")})

\* the pattern "*" in place of "*.json"
GlobEveryFile(dir) == dir

\* glob.glob(os.path.join(run_dir, "*.json"))
Glob(dir) == {f \in dir : f.ext = "json"}

\* os.path.basename(f).replace(".json", "")
BaseName(f) == IF f.ext = "json" THEN f.base ELSE FileName(f)

\* json.load of a file inside try/except: {} when the load raises
ReadJson(f) ==
    LET c == IF f.ext = "json" /\ f.base \in JsonNames
             THEN jsonFile(f.base) ELSE Unparsable
    IN  IF c.k = "unparsable" THEN EmptyRec ELSE c

(***************************************************************************)
(* Lines 11-17: load metadata.                                             *)
(***************************************************************************)
IterOk(c) == c.k \in {"list", "str", "map", "emap"}

\* whether lines 12-17 run through without raising
MetaLoads(meta) ==
    /\ meta.k = "map"
    /\ meta.models.k # "absent"
    /\ meta.prompts.k # "absent"
    /\ IterOk(meta.prompts)
    /\ \A j \in 1..Len(meta.prompts.items) : meta.prompts.items[j].k = "obj"
    /\ meta.target.k # "absent"

LoadMeta ==
    /\ pc = "load_meta"
    /\ opened' = IF metaFile.k = "missing" THEN opened
                 ELSE opened \cup {"prompts.json"}
    /\ IF MetaLoads(metaFile)
       THEN /\ models' = metaFile.models
            /\ labels' = [j \in 1..Len(metaFile.prompts.items) |->
                             metaFile.prompts.items[j].s]
            /\ target' = metaFile.target
            /\ pc' = "load_results"
       ELSE /\ pc' = "crashed"
            /\ UNCHANGED <<models, labels, target>>
    /\ UNCHANGED <<run, inputs, results, lines, metrics, summaryMd, chartPng,
                   stdout, firstRun>>

(***************************************************************************)
(* Lines 19-29: collect all results, skipping prompts.json.                *)
(***************************************************************************)
LoadResults ==
    /\ pc = "load_results"
    /\ LET found == {f \in Glob(DirListing) : BaseName(f) # "prompts"}
       IN  /\ results' = [name \in {BaseName(f) : f \in found} |->
                             ReadJson(CHOOSE f \in found : BaseName(f) = name)]
           /\ opened' = opened \cup {FileName(f) : f \in found}
    /\ pc' = "tables"
    /\ UNCHANGED <<run, inputs, models, labels, target, lines, metrics,
                   summaryMd, chartPng, stdout, firstRun>>

(***************************************************************************)
(* Lines 68-120: the head of the report, then one section and table per    *)
(* model.                                                                  *)
(***************************************************************************)
RunDirName == "2025-01-15"

\* lines 68-73
HeaderLines(tgt) ==
    << <<"h1", "Mycelium MCP Benchmark Results">>, <<"">>,
       <<"date", RunDirName>>, <<"target", PyStr(tgt)>>, <<"">> >>

\* the total assigned (=) where it is to be accumulated (+=)
AddCostAssigned(total, v) == IF FloatOk(v) THEN v.n ELSE total

\* total += float(cost) inside try/except
AddCost(total, v) == IF FloatOk(v) THEN total + v.n ELSE total

\* the running total of one model and mode after the first n prompts
RECURSIVE TotalCost(_, _, _, _, _)
TotalCost(res, lbls, model, mode, n) ==
    IF n = 0 THEN 0
    ELSE AddCost(TotalCost(res, lbls, model, mode, n - 1),
                 get(Lookup(res, Key(n, lbls[n], model, mode)), "total_cost_usd"))

\* f"{get(d, 'num_turns')}"
TurnsCell(d) == PyStr(get(d, "num_turns"))

\* lines 89-114: the row of one prompt
Row(res, idx, label, model) ==
    LET d_mcp == Lookup(res, Key(idx, label, model, "with-mcp"))
        d_nomcp == Lookup(res, Key(idx, label, model, "without-mcp"))
    IN  <<"row", ToString(idx), label,
          fmt_tokens(d_mcp), fmt_tokens(d_nomcp),
          fmt_cost(get(d_mcp, "total_cost_usd")),
          fmt_cost(get(d_nomcp, "total_cost_usd")),
          fmt_time(get(d_mcp, "duration_ms")),
          fmt_time(get(d_nomcp, "duration_ms")),
          TurnsCell(d_mcp), TurnsCell(d_nomcp)>>

\* lines 116-119: f"${total:.4f}" of both totals
TotalLine(res, lbls, model) ==
    <<"total",
      fmt_cost(Num(TotalCost(res, lbls, model, "with-mcp", Len(lbls)))),
      fmt_cost(Num(TotalCost(res, lbls, model, "without-mcp", Len(lbls))))>>

\* lines 76-120: the section of one model
ModelTable(res, lbls, model) ==
    << <<"h2", title(model)>>, <<"">>, <<"thead">>, <<"tsep">> >>
    \o [i \in 1..Len(lbls) |-> Row(res, i, lbls[i], model)]
    \o << <<"">>, TotalLine(res, lbls, model), <<"">> >>

\* line 75: the sections of the first n models
RECURSIVE Tables(_, _, _, _)
Tables(res, lbls, mods, n) ==
    IF n = 0 THEN <<>>
    ELSE Tables(res, lbls, mods, n - 1) \o ModelTable(res, lbls, mods[n].s)

\* line 75 raises on a value that cannot be iterated, line 76 on a model
\* that has no .title()
TablesRaise(ms) ==
    \/ ~IterOk(ms)
    \/ \E j \in 1..Len(ms.items) : ms.items[j].k # "str"

RenderTables ==
    /\ pc = "tables"
    /\ IF TablesRaise(models)
       THEN pc' = "crashed" /\ UNCHANGED lines
       ELSE /\ lines' = HeaderLines(target)
                        \o Tables(results, labels, models.items, Len(models.items))
            /\ pc' = "answers"
    /\ UNCHANGED <<run, inputs, models, labels, target, results, metrics,
                   summaryMd, chartPng, stdout, opened, firstRun>>

(***************************************************************************)
(* Lines 122-147: the answer comparison.                                   *)
(***************************************************************************)
\* str.strip()
RECURSIVE LStrip(_)
LStrip(t) == IF t # <<>> /\ IsSpace(Head(t)) THEN LStrip(Tail(t)) ELSE t
RECURSIVE RStrip(_)
RStrip(t) ==
    IF t # <<>> /\ IsSpace(t[Len(t)])
    THEN RStrip(SubSeq(t, 1, Len(t) - 1)) ELSE t
Strip(t) == RStrip(LStrip(t))

\* lines 134-139: the transcript, "N/A" when the open raises
Answer(key) == IF key \in TxtNames THEN Strip(txtFile(key)) ELSE <<"N/A">>

\* the two tags the wrong way round
ModeTagSwapped(mode) == IF mode = "with-mcp" THEN "WITHOUT MCP" ELSE "WITH MCP"

\* line 141
ModeTag(mode) == IF mode = "with-mcp" THEN "WITH MCP" ELSE "WITHOUT MCP"

\* lines 134-147: the block of one mode
Block(key, mode) ==
    << <<"details", ModeTag(mode)>>, <<"">>, <<"text">> \o Answer(key), <<"">>,
       <<"enddetails">>, <<"">> >>

\* lines 129-147: the heading and the two blocks of one prompt
PromptAnswers(idx, label, model) ==
    << <<"h3", title(model), label>>, <<"">> >>
    \o Block(Key(idx, label, model, Modes[1]), Modes[1])
    \o Block(Key(idx, label, model, Modes[2]), Modes[2])

\* line 128: the answers of one model for the first n prompts
RECURSIVE ModelAnswers(_, _, _)
ModelAnswers(lbls, model, n) ==
    IF n = 0 THEN <<>>
    ELSE ModelAnswers(lbls, model, n - 1) \o PromptAnswers(n, lbls[n], model)

\* line 127: the answers of the first n models
RECURSIVE Answers(_, _, _)
Answers(lbls, mods, n) ==
    IF n = 0 THEN <<>>
    ELSE Answers(lbls, mods, n - 1) \o ModelAnswers(lbls, mods[n].s, Len(lbls))

\* lines 122-125
AnswersHeader == << <<"hr">>, <<"">>, <<"h2", "Answer Comparison">>, <<"">> >>

RenderAnswers ==
    /\ pc = "answers"
    /\ lines' = lines \o AnswersHeader
                \o Answers(labels, models.items, Len(models.items))
    /\ LET keys == {Key(i, labels[i], models.items[j].s, Modes[md]) :
                       i \in 1..Len(labels), j \in 1..Len(models.items),
                       md \in 1..2}
       IN  opened' = opened \cup {FileName(File(k, "txt")) : k \in keys \cap TxtNames}
    /\ pc' = "write"
    /\ UNCHANGED <<run, inputs, models, labels, target, results, metrics,
                   summaryMd, chartPng, stdout, firstRun>>

(***************************************************************************)
(* Lines 149-153: write summary.md.                                        *)
(***************************************************************************)
WriteSummary ==
    /\ pc = "write"
    /\ summaryMd' = <<lines>>
    /\ stdout' = Append(stdout, "Summary written")
    /\ pc' = "import_chart"
    /\ UNCHANGED <<run, inputs, models, labels, target, results, lines,
                   metrics, chartPng, opened, firstRun>>

(***************************************************************************)
(* Lines 155-249: the comparison chart, inside try / except ImportError.   *)
(***************************************************************************)
\* a handler for another exception than the import raises
CatchesNameError(exc) == exc = "NameError"

\* line 248: the one exception the chart step handles
Catches(exc) == exc = "ImportError"

ImportChart ==
    /\ pc = "import_chart"
    /\ LET exc == IF chartAvail THEN "none" ELSE "ImportError"
       IN  IF exc = "none"
           THEN pc' = "collect" /\ UNCHANGED stdout
           ELSE IF Catches(exc)
           THEN /\ pc' = "done"
                /\ stdout' = Append(stdout, "matplotlib not installed")
           ELSE pc' = "crashed" /\ UNCHANGED stdout
    /\ UNCHANGED <<run, inputs, models, labels, target, results, lines,
                   metrics, summaryMd, chartPng, opened, firstRun>>

\* lines 172-192: what one record appends to the list of one metric
MetricValue(d, metric) ==
    CASE metric = "cost" ->
            LET v == get(d, "total_cost_usd")
            IN  IF FloatOk(v) THEN <<Num(v.n)>> ELSE <<>>
      [] metric = "time" ->
            LET v == get(d, "duration_ms")
            IN  IF FloatOk(v) THEN <<Num(v.n)>> ELSE <<>>
      [] metric = "turns" ->
            LET v == get(d, "num_turns")
            IN  IF IntOk(v) THEN <<Num(v.n)>> ELSE <<>>
      [] metric = "tokens" ->
            LET t == TokenTotal(d)
            IN  IF t.ok THEN <<t.v>> ELSE <<>>

\* the list of one model, mode and metric after the first n prompts
RECURSIVE MetricList(_, _, _, _, _, _)
MetricList(res, lbls, model, mode, metric, n) ==
    IF n = 0 THEN <<>>
    ELSE MetricList(res, lbls, model, mode, metric, n - 1)
         \o MetricValue(Lookup(res, Key(n, lbls[n], model, mode)), metric)

MetricSet == {Metrics[j] : j \in 1..Len(Metrics)}
ModeSet == {Modes[j] : j \in 1..Len(Modes)}

CollectMetrics ==
    /\ pc = "collect"
    /\ metrics' = [name \in {models.items[j].s : j \in 1..Len(models.items)} |->
                     [mode \in ModeSet |->
                        [metric \in MetricSet |->
                           MetricList(results, labels, name, mode, metric,
                                      Len(labels))]]]
    /\ pc' = "plot"
    /\ UNCHANGED <<run, inputs, models, labels, target, results, lines,
                   summaryMd, chartPng, stdout, opened, firstRun>>

\* the denominator of the unit a metric is held in: cost in 1/10000 dollar,
\* time in 1/1000 second
Den(metric) ==
    CASE metric = "cost" -> 10000
      [] metric = "time" -> 1000
      [] OTHER -> 1

RECURSIVE SumN(_)
SumN(vals) == IF vals = <<>> THEN 0 ELSE vals[1].n + SumN(Tail(vals))

\* sum(vals) starts from the integer 0 and raises on a string or a list
SumRaises(vals) == \E j \in 1..Len(vals) : vals[j].k # "num"

\* lines 194-195: the mean as numerator over denominator, 0 for no values
safe_avg(vals, den) ==
    IF vals = <<>> THEN <<0, 1>> ELSE <<SumN(vals), den * Len(vals)>>

PlotChart ==
    /\ pc = "plot"
    /\ LET names == [j \in 1..Len(models.items) |-> models.items[j].s]
           exc == IF \E j \in 1..Len(names), mode \in ModeSet, metric \in MetricSet :
                        SumRaises(metrics[names[j]][mode][metric])
                  THEN "TypeError" ELSE "none"
       IN  IF exc = "none"
           THEN /\ chartPng' =
                      << [metric \in MetricSet |->
                            [mode \in ModeSet |->
                               [j \in 1..Len(names) |->
                                  safe_avg(metrics[names[j]][mode][metric],
                                           Den(metric))]]] >>
                /\ stdout' = Append(stdout, "Chart written")
                /\ pc' = "done"
           ELSE IF Catches(exc)
           THEN /\ pc' = "done"
                /\ stdout' = Append(stdout, "matplotlib not installed")
                /\ UNCHANGED chartPng
           ELSE pc' = "crashed" /\ UNCHANGED <<chartPng, stdout>>
    /\ UNCHANGED <<run, inputs, models, labels, target, results, lines,
                   metrics, summaryMd, opened, firstRun>>

(***************************************************************************)
(* The builder is run a second time on the directory the first run left,   *)
(* in an environment that may or may not have the chart libraries.         *)
(***************************************************************************)
Rerun ==
    /\ pc \in {"done", "crashed"}
    /\ run = 1
    /\ run' = 2
    /\ firstRun' = [chartAvail |-> chartAvail, summaryMd |-> summaryMd,
                    chartPng |-> chartPng]
    /\ chartAvail' \in BOOLEAN
    /\ pc' = "load_meta"
    /\ models' = NoColl
    /\ labels' = <<>>
    /\ target' = Absent
    /\ results' = <<>>
    /\ lines' = <<>>
    /\ metrics' = NoMetrics
    /\ stdout' = <<>>
    /\ opened' = {}
    /\ UNCHANGED <<defects, summaryMd, chartPng>>

Next ==
    \/ LoadMeta
    \/ LoadResults
    \/ RenderTables
    \/ RenderAnswers
    \/ WriteSummary
    \/ ImportChart
    \/ CollectMetrics
    \/ PlotChart
    \/ Rerun

Spec == Init /\ [][Next]_vars

(***************************************************************************)
(* Reading the inputs and the written report, for the properties below.    *)
(***************************************************************************)
MetaKind == KindAt(defects, "meta", 0, 0, 0)
MetaOK == MetaKind = "none"
RecKind(x) == KindAt(defects, "rec", x[1], x[2], x[3])

\* the trial file of x as it lies in the directory
TrialRec(x) == DefectRec(x[1], x[2], x[3], RecKind(x))

\* summary.md was written by the current run
WroteThisRun == stdout # <<>>

Report == summaryMd[1]
HasTag(l, tags) == l[1] \in tags
Tagged(rep, tags) == SelectSeq(rep, LAMBDA l : HasTag(l, tags))

\* the row of prompt i in the table of model m, and its four cells of mode md
\* in the order tokens, cost, time, turns
RowOfTrial(i, m) == Tagged(Report, {"row"})[(m - 1) * MaxPrompts + i]
ModeCells(row, md) == <<row[3 + md], row[5 + md], row[7 + md], row[9 + md]>>
AllNA == <<"N/A", "N/A", "N/A", "N/A">>

Numeric(v) == v.k \in {"num", "numstr", "bool"}
WellFormedUsage(u) ==
    /\ u.k \in {"map", "emap"}
    /\ \A j \in 1..4 : u.sub[j].k \in {"num", "absent"}
UsageSum(u) == u.sub[1].n + u.sub[2].n + u.sub[3].n + u.sub[4].n

(***************************************************************************)
(* C1.  Only the metadata load can abort the run: when prompts.json is     *)
(* readable and well formed, the run never ends in an uncaught exception,  *)
(* whatever the trial files and transcripts are and whether or not the     *)
(* chart libraries are there.                                              *)
(***************************************************************************)
\* C1: with a well-formed prompts.json the run never crashes
C1_OnlyMetaAborts == MetaOK => pc # "crashed"

(***************************************************************************)
(* C2.  A trial file that is missing or unparsable shows N/A in every cell *)
(* of its mode (tokens, cost, time, turns), and the report still has one   *)
(* row per prompt of every model.                                          *)
(***************************************************************************)
\* C2: the four cells of a missing or unparsable trial are all N/A
C2_MissingRecordAllNA ==
    (WroteThisRun /\ MetaOK) =>
        /\ Len(Tagged(Report, {"row"})) = MaxModels * MaxPrompts
        /\ \A x \in Trials :
              RecKind(x) \in {"missing", "unparsable"} =>
                  ModeCells(RowOfTrial(x[1], x[2]), x[3]) = AllNA

(***************************************************************************)
(* C3.  The token cell of a record is the sum of its four usage sub-counts *)
(* (an absent one counting 0) when usage is a well-formed mapping, and N/A *)
(* when the record has no usage key or usage is not a mapping.             *)
(***************************************************************************)
\* C3: the token cell is the sum of the sub-counts, or N/A without a usage
\* mapping
C3_TokenCell ==
    (WroteThisRun /\ MetaOK) =>
        \A x \in Trials :
            LET r == TrialRec(x)
                cell == ModeCells(RowOfTrial(x[1], x[2]), x[3])[1]
            IN  (RecKind(x) # "missing" /\ r.k = "map") =>
                   /\ WellFormedUsage(r.usage) => cell = Thousands(UsageSum(r.usage))
                   /\ r.usage.k \notin {"map", "emap"} => cell = "N/A"

(***************************************************************************)
(* C4.  The total cost a model's section reports for a mode is the sum of  *)
(* total_cost_usd over exactly the prompts whose trial file of that model  *)
(* and mode exists, parses to a mapping and has a numeric total_cost_usd   *)
(* (one that float() accepts); every other prompt adds 0, and no cost of   *)
(* another model or mode is included.                                      *)
(***************************************************************************)
CostOfFile(name) ==
    IF name \notin JsonNames THEN 0
    ELSE LET r == jsonFile(name)
         IN  IF r.k = "map" /\ Numeric(r.cost) THEN r.cost.n ELSE 0

RECURSIVE SumOfCosts(_, _, _, _)
SumOfCosts(ps, model, mode, n) ==
    IF n = 0 THEN 0
    ELSE SumOfCosts(ps, model, mode, n - 1)
         + CostOfFile(Key(n, ps[n].s, model, mode))

\* C4: each total line is the sum of the numeric costs of its model and mode
C4_TotalCost ==
    WroteThisRun =>
        LET totals == Tagged(Report, {"total"})
            ms == metaFile.models.items
            ps == metaFile.prompts.items
        IN  /\ Len(totals) = Len(ms)
            /\ \A j \in 1..Len(ms) :
                  totals[j] =
                    <<"total",
                      fmt_cost(Num(SumOfCosts(ps, ms[j].s, "with-mcp", Len(ps)))),
                      fmt_cost(Num(SumOfCosts(ps, ms[j].s, "without-mcp", Len(ps))))>>

\* a report is written for a directory in which one trial has a non-numeric
\* cost and the other prompts of its model and mode have numeric ones
C4_Witness ==
    /\ pc = "done"
    /\ MetaOK
    /\ \E d \in defects : d.t = "rec" /\ d.kind \in {"cost_str", "missing"}
    /\ Cardinality(defects) = 1
    /\ MaxPrompts > 1

(***************************************************************************)
(* C5.  Each bar of the chart is the mean over only the prompts whose      *)
(* record yields a value for the metric: a record that is missing or does  *)
(* not parse is left out of the mean, not counted as zero, and the bar is  *)
(* 0 when no prompt yields a value.                                        *)
(***************************************************************************)
\* the value the trial x yields for a metric, as a sequence of 0 or 1 numbers
Yield(x, metric) ==
    LET r == TrialRec(x)
    IN  IF RecKind(x) = "missing" \/ r.k # "map" THEN <<>>
        ELSE CASE metric = "cost" -> IF Numeric(r.cost) THEN <<r.cost.n>> ELSE <<>>
               [] metric = "time" -> IF Numeric(r.dur) THEN <<r.dur.n>> ELSE <<>>
               [] metric = "turns" -> IF Numeric(r.turns) THEN <<r.turns.n>> ELSE <<>>
               [] metric = "tokens" ->
                    IF r.usage.k = "absent" THEN <<0>>
                    ELSE IF WellFormedUsage(r.usage) THEN <<UsageSum(r.usage)>>
                    ELSE <<>>

RECURSIVE Yields(_, _, _, _)
Yields(m, md, metric, n) ==
    IF n = 0 THEN <<>>
    ELSE Yields(m, md, metric, n - 1) \o Yield(<<n, m, md>>, metric)

RECURSIVE SeqSum(_)
SeqSum(q) == IF q = <<>> THEN 0 ELSE q[1] + SeqSum(Tail(q))

\* equality of two rationals <<numerator, denominator>>
RatEq(a, b) == a[1] * b[2] = b[1] * a[2]

MeanOf(q, den) == IF q = <<>> THEN <<0, 1>> ELSE <<SeqSum(q), den * Len(q)>>

\* C5: every bar is the mean of the values the records yield
C5_ChartMeans ==
    (pc = "done" /\ chartAvail /\ MetaOK) =>
        \A metric \in MetricSet, md \in 1..2, m \in 1..MaxModels :
            RatEq(chartPng[1][metric][Modes[md]][m],
                  MeanOf(Yields(m, md, metric, MaxPrompts), Den(metric)))

(***************************************************************************)
(* C6.  When prompts.json is missing, unparsable or structurally invalid   *)
(* (models not a sequence of strings, prompts not a sequence of objects    *)
(* each with a label, or target absent), the run fails before summary.md   *)
(* or chart.png is written.                                                *)
(***************************************************************************)
InvalidMetaKinds ==
    {"missing", "unparsable", "nonmapping",
     "models_absent", "models_num", "models_str", "models_map", "models_int_item",
     "prompts_absent", "prompts_num", "prompts_emap", "prompts_nolabel",
     "prompts_nonobj", "target_absent"}

\* C6: with an invalid prompts.json nothing is written and the run does not
\* end normally
C6_InvalidMetaAborts ==
    MetaKind \in InvalidMetaKinds =>
        /\ summaryMd = <<>>
        /\ chartPng = <<>>
        /\ pc # "done"

(***************************************************************************)
(* C7.  The report follows the metadata order: one section per model in    *)
(* order, each with one row per prompt in order, numbered 1..n; then,      *)
(* after all the tables, two transcript blocks per (model, prompt), by     *)
(* model then prompt, WITH MCP before WITHOUT MCP.                         *)
(***************************************************************************)
\* the headings, rows (number and label) and block tags of a report, in order
Outline(rep) ==
    LET s == Tagged(rep, {"h2", "row", "hr", "h3", "details"})
    IN  [k \in 1..Len(s) |->
            IF s[k][1] = "row" THEN <<"row", s[k][2], s[k][3]>> ELSE s[k]]

RECURSIVE TablesOutline(_, _, _)
TablesOutline(ms, ps, j) ==
    IF j = 0 THEN <<>>
    ELSE TablesOutline(ms, ps, j - 1)
         \o << <<"h2", title(ms[j].s)>> >>
         \o [i \in 1..Len(ps) |-> <<"row", ToString(i), ps[i].s>>]

RECURSIVE PromptsOutline(_, _, _)
PromptsOutline(m, ps, i) ==
    IF i = 0 THEN <<>>
    ELSE PromptsOutline(m, ps, i - 1)
         \o << <<"h3", title(m.s), ps[i].s>>,
               <<"details", "WITH MCP">>, <<"details", "WITHOUT MCP">> >>

RECURSIVE AnswersOutline(_, _, _)
AnswersOutline(ms, ps, j) ==
    IF j = 0 THEN <<>>
    ELSE AnswersOutline(ms, ps, j - 1) \o PromptsOutline(ms[j], ps, Len(ps))

\* C7: the outline of the report is the one the metadata order gives
C7_ReportOrder ==
    summaryMd # <<>> =>
        LET ms == metaFile.models.items
            ps == metaFile.prompts.items
        IN  Outline(Report) =
                TablesOutline(ms, ps, Len(ms))
                \o << <<"hr">>, <<"h2", "Answer Comparison">> >>
                \o AnswersOutline(ms, ps, Len(ms))

\* a report of at least two models and two prompts is written
C7_Witness ==
    /\ pc = "done"
    /\ MetaOK
    /\ Len(models.items) > 1
    /\ Len(labels) > 1
    /\ Len(Tagged(Report, {"details"})) = 2 * Len(models.items) * Len(labels)

(***************************************************************************)
(* C8.  Without the chart libraries the run still succeeds: summary.md is  *)
(* written in full before the chart is attempted, the chart step is        *)
(* skipped with a printed notice, chart.png is not written, the run ends   *)
(* normally, and summary.md is the same as with the chart libraries.       *)
(***************************************************************************)
\* C8: the report is written before the chart step, and a run without the
\* chart libraries ends normally with the notice, no chart and the same report
C8_ChartOptional ==
    /\ pc \in {"import_chart", "collect", "plot", "done"} => summaryMd = <<lines>>
    /\ (~chartAvail /\ WroteThisRun) => pc \in {"import_chart", "done"}
    /\ (~chartAvail /\ pc = "done") =>
          /\ stdout = <<"Summary written", "matplotlib not installed">>
          /\ chartPng = firstRun.chartPng
    /\ (run = 2 /\ chartAvail # firstRun.chartAvail /\ WroteThisRun) =>
          summaryMd = firstRun.summaryMd

\* a run without the chart libraries ends, after a run with them drew a chart
C8_Witness ==
    /\ run = 2
    /\ pc = "done"
    /\ ~chartAvail
    /\ firstRun.chartAvail
    /\ firstRun.chartPng # <<>>

(***************************************************************************)
(* C9.  A second run on unchanged input files writes the same summary.md,  *)
(* and never opens the summary.md or chart.png the first run wrote.        *)
(***************************************************************************)
\* C9: the second run writes the first run's summary.md again and opens
\* neither output of the first run
C9_Idempotent ==
    /\ (run = 2 /\ WroteThisRun) => summaryMd = firstRun.summaryMd
    /\ opened \cap {"summary.md", "chart.png"} = {}

\* the second run ends in a directory that holds the first run's outputs
C9_Witness ==
    /\ run = 2
    /\ pc = "done"
    /\ firstRun.summaryMd # <<>>
    /\ firstRun.chartPng # <<>>
    /\ "prompts.json" \in opened

(***************************************************************************)
(* C10.  A field of the wrong type or shape shows N/A in its own cell and  *)
(* leaves the other three cells of the row and mode as they would be with  *)
(* the field well formed.                                                  *)
(***************************************************************************)
\* the cell (1 tokens, 2 cost, 3 time, 4 turns) a wrong-type defect is in
WrongTypeCell(kind) ==
    CASE kind \in {"usage_str", "usage_sub_str", "usage_all_str"} -> 1
      [] kind \in {"cost_str", "cost_list"} -> 2
      [] kind \in {"dur_str"} -> 3
      [] kind \in {"turns_str", "turns_list"} -> 4
      [] OTHER -> 0

\* the four cells of the well-formed record of a trial
WellFormedCells(i, m, md) ==
    LET b == BaseRec(i, m, md)
    IN  <<Thousands(UsageSum(b.usage)), fmt_cost(b.cost), fmt_time(b.dur),
          ToString(b.turns.n)>>

\* C10: a wrong-type field is N/A in its cell and the other cells are those
\* of the well-formed record
C10_FieldIsolation ==
    (WroteThisRun /\ MetaOK) =>
        \A d \in defects :
            (d.t = "rec" /\ WrongTypeCell(d.kind) # 0) =>
                LET cells == ModeCells(RowOfTrial(d.i, d.m), d.md)
                    good == WellFormedCells(d.i, d.m, d.md)
                IN  \A c \in 1..4 :
                        cells[c] = IF c = WrongTypeCell(d.kind) THEN "N/A" ELSE good[c]

====
